---- MODULE Spec2Model ----
(***************************************************************************)
(* ViranumPro: the 5SIM provider client (app/services/fivesim.py) and the  *)
(* per-order watcher _poll_order_updates (app/main.py).                    *)
(*                                                                         *)
(* Spec        one watcher polling one order through the client that       *)
(*             main.py builds (default retries).                           *)
(* SpecClient  one FiveSimClient, any configured retries, serving calls    *)
(*             of _request made by some caller.                            *)
(* SpecFaulty  Spec, with order_check bodies that are not JSON and with     *)
(*             bot.send_message raising.                                   *)
(* SpecBuy     purchases: buy_activation called by the handler             *)
(*             buy_maxprice and called directly.                           *)
(* SpecCache   price lookups (on_prices) over the TTLCache, handled one    *)
(*             after another while time passes.                            *)
(* SpecSms     Spec for an order whose SMS come without id, or without     *)
(*             code.                                                       *)
(* SpecCancel  Spec, with the watcher's task being cancelled.              *)
(* SpecLookups price and country lookups, handled one after another.       *)
(* SpecCacheConc  price lookups handled concurrently.                      *)
(* SpecBot     several orders: purchases, order buttons and the watcher    *)
(*             tasks of the orders side by side.                           *)
(***************************************************************************)
EXTENDS Integers, Sequences, FiniteSets, TLC

VARIABLES
    retries,      \* FiveSimClient._retries
    token_arg,    \* the token given to FiveSimClient(...)
    token,        \* FiveSimClient._token
    pool,         \* the SMS entries the provider may list for the order of a run
    auth,         \* the Authorization header of the running call's requests
    req_pc,       \* position of the running _request call
    attempt,      \* loop variable of _request
    last_exc,     \* local last_exc of _request
    resp,         \* what the latest attempt received
    tries,        \* number of self._client.request calls of the running call
    sleeps,       \* asyncio.sleep arguments of the running call, in tenths of a second
    result,       \* what the call delivered: a returned value or a raised exception
    pc,           \* position of _poll_order_updates
    backoff,      \* local backoff
    seen_sms_ids, \* local seen_sms_ids
    last_status,  \* local last_status
    status,       \* local status
    sent,         \* bot.send_message calls of the watcher, in call order
    delays,       \* arguments of the asyncio.sleep(delay) calls, in call order
    npolls,       \* number of order_check calls that returned
    observed,     \* raw data.get("status") of the latest order_check that returned
    runs,         \* number of maximal runs of equal raw statuses observed so far
    scen,         \* how far the polls so far follow the spec's scenario (-1: they left it)
    wait,         \* argument of the asyncio.sleep the watcher is in (0: in none)
    ref,          \* seen ids, last status and messages of a watcher fed the successful polls only
    base,         \* Len(sent) when the latest order_check returned
    buy_pc,       \* where the purchase in progress is
    buy_call,     \* the arguments of the latest buy_activation call
    buy_params,   \* the query parameters that call gave to _request
    buy_reply,    \* what the purchase came to
    order_id,     \* local order_id of buy_maxprice
    now,          \* time.time(), in ticks
    store,        \* TTLCache._store of cache: key -> (expiry, value)
    lk,           \* the price lookups being handled, by handler
    last_set,     \* per key, the latest cache.set: its call time, value and ttl
    nlook,        \* lookups begun
    ncalls,       \* get_guest_prices calls issued
    nset,         \* cache.set calls made
    ORDERS,       \* module-level ORDERS: order id -> entry
    USER_LAST_ORDER, \* module-level USER_LAST_ORDER: user id -> order id
    ws,           \* the _poll_order_updates tasks created, by order id: each one's locals
    refs,         \* by order id, as ref: a watcher fed that order's successful polls only
    norders,      \* buy_activation calls of buy_maxprice that returned an order
    last_action   \* the latest order button handled: its order id and action

confvars == <<retries, token_arg, token, pool>>
reqvars == <<req_pc, attempt, last_exc, resp, tries, sleeps, result, auth>>
wvars == <<pc, backoff, seen_sms_ids, last_status, status, sent, delays, npolls,
           observed, runs, scen, wait, ref, base>>
buyvars == <<buy_pc, buy_call, buy_params, buy_reply, order_id>>
cachevars == <<now, store, lk, last_set, nlook, ncalls, nset>>
botvars == <<ORDERS, USER_LAST_ORDER, ws, refs, norders, last_action>>
vars == <<confvars, reqvars, wvars, buyvars, cachevars, botvars>>

(***************************************************************************)
(* Bounds of the model.                                                    *)
(***************************************************************************)
MaxRetries == 4
MaxPolls == 6
MaxSms == 2
MaxSent == 5
MaxTime == 4
MaxLookups == 3
MaxOrders == 2
MaxChecks == 2

(***************************************************************************)
(* Python's None, where a string is expected.                              *)
(***************************************************************************)
None == "<None>"

Max(a, b) == IF a > b THEN a ELSE b
Min(a, b) == IF a < b THEN a ELSE b

(***************************************************************************)
(* FiveSimClient                                                           *)
(***************************************************************************)
DefaultRetries == 2

RetriesArgs == (0 - 1) .. MaxRetries

ClampRetries(r) == Max(0, r)

\* values of the environment variable FIVESIM_TOKEN: unset or empty, blank,
\* plain, padded
EnvValues == {"", " ", "abc", " abc "}

\* token.strip()
Strip(t) ==
    CASE t = " " -> ""
      [] t = " abc " -> "abc"
      [] OTHER -> t

\* FIVESIM_TOKEN = os.getenv("FIVESIM_TOKEN", "").strip() or None
EnvToken(e) == IF Strip(e) # "" THEN Strip(e) ELSE None

\* self._token = token.strip() if token else None
InitToken(t) == IF t \notin {None, ""} THEN Strip(t) ELSE None

NoHeader == [present |-> FALSE, value |-> ""]

AuthHeaderAlways(t) == [present |-> TRUE, value |-> t]

\* _auth_headers: headers["Authorization"] = f"Bearer {self._token}" if self._token
AuthHeader(t) ==
    IF t \notin {None, ""} THEN [present |-> TRUE, value |-> t] ELSE NoHeader

require_ok == TRUE

StatusCodes == {200, 400, 404, 429, 499, 500, 503}

\* What one self._client.request can deliver: a response (status code, body
\* decodable as JSON or not) or an httpx.HTTPError.
Responses ==
    [kind : {"http"}, status_code : StatusCodes, json : BOOLEAN]
        \cup {[kind |-> "HTTPError"]}

NoExc == [type |-> "None"]
NoResp == [kind |-> "none"]
NoResult == [kind |-> "none"]

FiveSimError(status_code, payload, k) ==
    [type |-> "FiveSimError", status_code |-> status_code, payload |-> payload, at |-> k]

HTTPError(k) == [type |-> "HTTPError", at |-> k]

AssertionError == [type |-> "AssertionError"]

\* asyncio.CancelledError, raised at the await a cancelled task is suspended in
CancelledError == [type |-> "CancelledError"]

BodyAlwaysJson(r) == "json"

\* resp.json() if it decodes, else resp.text
Body(r) == IF r.json THEN "json" ELSE "text"

IsErrorStatus(r) == require_ok /\ r.status_code >= 400

NoRetryNever(e) == FALSE

NoRetry(e) ==
    e.status_code # 0 /\ 400 <= e.status_code /\ e.status_code < 500
        /\ e.status_code # 429

InRangeOneMore(a, r) == a < r + 2

\* a \in range(self._retries + 1)
InRange(a, r) == a < r + 1

\* if attempt < self._retries
SleepsBeforeNext(a, r) == a < r

BackoffDelayUncapped(a) == 5 * (2 ^ a)

\* min(2.0, 0.5 * (2 ** attempt)), in tenths of a second
BackoffDelay(a) == Min(20, 5 * (2 ^ a))

RememberFirst(old, e) == IF old = NoExc THEN e ELSE old

\* last_exc = e
Remember(old, e) == e

RaiseLastAsFiveSimError(e) ==
    IF e = NoExc THEN AssertionError
    ELSE IF e.type = "HTTPError" THEN FiveSimError(0, None, e.at) ELSE e

\* assert last_exc is not None; raise last_exc
RaiseLast(e) == IF e = NoExc THEN AssertionError ELSE e

ReqInit ==
    /\ req_pc = "idle"
    /\ attempt = 0
    /\ last_exc = NoExc
    /\ resp = NoResp
    /\ tries = 0
    /\ sleeps = <<>>
    /\ result = NoResult
    /\ auth = NoHeader

\* _request up to its first attempt: the loop is entered if range(retries + 1)
\* is not empty
StartRequest ==
    /\ attempt' = 0
    /\ last_exc' = NoExc
    /\ resp' = NoResp
    /\ tries' = 0
    /\ sleeps' = <<>>
    /\ auth' = AuthHeader(token)
    /\ IF InRange(0, retries)
         THEN req_pc' = "attempt" /\ result' = NoResult
         ELSE req_pc' = "raised" /\ result' = RaiseLast(NoExc)

\* the call leaves _request: its frame (attempt, last_exc) is gone
Leave(how, what) ==
    /\ req_pc' = how
    /\ result' = what
    /\ attempt' = 0
    /\ last_exc' = NoExc

\* the loop goes to its next iteration, or ends and raises last_exc
NextIteration(exc) ==
    IF InRange(attempt + 1, retries)
      THEN /\ req_pc' = "attempt"
           /\ attempt' = attempt + 1
           /\ last_exc' = exc
           /\ result' = NoResult
      ELSE Leave("raised", RaiseLast(exc))

\* one iteration of the loop of _request, from self._client.request to the
\* return, the raise, the sleep or the next iteration
Attempt(Rs) ==
    /\ req_pc = "attempt"
    /\ \E r \in Rs :
         /\ resp' = r
         /\ tries' = tries + 1
         /\ IF r.kind = "http" /\ ~IsErrorStatus(r)
              THEN /\ Leave("returned", [kind |-> "value", body |-> Body(r)])
                   /\ sleeps' = sleeps
              ELSE LET e == IF r.kind = "http"
                              THEN FiveSimError(r.status_code, Body(r), attempt)
                              ELSE HTTPError(attempt)
                   IN  IF e.type = "FiveSimError" /\ NoRetry(e)
                         THEN /\ Leave("raised", e)
                              /\ sleeps' = sleeps
                         ELSE IF SleepsBeforeNext(attempt, retries)
                           THEN /\ req_pc' = "backoff"
                                /\ last_exc' = Remember(last_exc, e)
                                /\ sleeps' = Append(sleeps, BackoffDelay(attempt))
                                /\ UNCHANGED <<attempt, result>>
                           ELSE /\ NextIteration(Remember(last_exc, e))
                                /\ sleeps' = sleeps
    /\ UNCHANGED <<confvars, botvars, buyvars, cachevars, auth, wvars>>

\* asyncio.sleep of the backoff returns
Backoff ==
    /\ req_pc = "backoff"
    /\ NextIteration(last_exc)
    /\ UNCHANGED <<confvars, botvars, buyvars, cachevars, resp, tries, sleeps, auth, wvars>>

\* the caller has the outcome of the call
ReqReset ==
    /\ req_pc' = "idle"
    /\ attempt' = 0
    /\ last_exc' = NoExc
    /\ resp' = NoResp
    /\ tries' = 0
    /\ sleeps' = <<>>
    /\ result' = NoResult
    /\ auth' = NoHeader

(***************************************************************************)
(* SpecClient: calls of _request by a caller other than the watcher.       *)
(***************************************************************************)
Call ==
    /\ req_pc = "idle"
    /\ StartRequest
    /\ UNCHANGED <<confvars, botvars, buyvars, cachevars, wvars>>

ClientAttempt == Attempt(Responses)

Complete ==
    /\ req_pc \in {"returned", "raised"}
    /\ ReqReset
    /\ UNCHANGED <<confvars, botvars, buyvars, cachevars, wvars>>

(***************************************************************************)
(* _poll_order_updates                                                     *)
(***************************************************************************)
BackoffSchedule == <<2, 4, 8, 15, 30>>

ExhaustedDelay == 30

\* data.get("status") of a decoded order: a status of the provider, or absent
RawStatuses == {"PENDING", "RECEIVED", "FINISHED", "CANCELED", "TIMEOUT", "BANNED", None}

\* str(x)
Str(x) == IF x = None THEN "None" ELSE x

IsTerminalNoTimeout(st) == st \in {"FINISHED", "CANCELED", "BANNED"}

IsTerminal(st) == st \in {"FINISHED", "CANCELED", "TIMEOUT", "BANNED"}

\* An entry of data["sms"]. id 0 stands for an entry without "id".
NoId == 0

Sms(id, code, text, date) == [id |-> id, code |-> code, text |-> text, date |-> date]

Sms1 == Sms(1, "123", "t1", "d1")
Sms2 == Sms(2, "456", "t2", "d2")
Sms1NoCode == Sms(1, None, "t1", "d1")
SmsNoId == Sms(NoId, "789", "t3", "d3")

SmsPool == {Sms1, Sms2, Sms1NoCode}

\* an entry with an id and the text and date of the entry without one, and an
\* entry of the same id with another text, date and code
Sms3SameText == Sms(3, "333", "t3", "d3")
Sms3Changed == Sms(3, "999", "t9", "d9")

PoolNoId == {SmsNoId, Sms3SameText, Sms3Changed}

\* entry 1 with an empty code
Sms1EmptyCode == Sms(1, "", "t1", "d1")

PoolNoCode == {Sms1, Sms1EmptyCode, Sms1NoCode}

SmsLists == UNION {[1..n -> pool] : n \in 0..MaxSms}

\* hash((txt, s.get("date"))): an integer fixed by the two fields
Hash(text, date) ==
    CASE <<text, date>> = <<"t1", "d1">> -> 7001
      [] <<text, date>> = <<"t2", "d2">> -> 7002
      [] <<text, date>> = <<"t3", "d3">> -> 7003
      [] OTHER -> 7000

SmsKeyByText(s) == Hash(s.text, s.date)

\* lines 159-164: the dedup key of an entry
SmsKey(s) == IF s.id = NoId THEN Hash(s.text, s.date) ELSE s.id

\* if code
Truthy(code) == code \notin {None, ""}

MarkSeenForgets(seen, sid) == seen

\* seen_sms_ids.add(sid)
MarkSeen(seen, sid) == seen \cup {sid}

\* the for loop over sms_list: the new seen_sms_ids and the new codes, each with
\* the key of the entry it came from
RECURSIVE ScanSms(_, _, _)
ScanSms(sms_list, seen, new) ==
    IF sms_list = <<>> THEN [seen |-> seen, new |-> new]
    ELSE LET s == Head(sms_list)
             sid == SmsKey(s)
         IN  IF sid \notin seen
               THEN ScanSms(Tail(sms_list), MarkSeen(seen, sid),
                            IF Truthy(s.code)
                              THEN Append(new, [sid |-> sid, code |-> Str(s.code)])
                              ELSE new)
               ELSE ScanSms(Tail(sms_list), seen, new)

\* "New code(s) received: " + ", ".join(new_codes)
CodesMsg(new) ==
    [kind |-> "codes", codes |-> [i \in 1..Len(new) |-> new[i].code],
     sids |-> [i \in 1..Len(new) |-> new[i].sid]]

CodesBatchPerCode(new) == [i \in 1..Len(new) |-> CodesMsg(<<new[i]>>)]

\* if new_codes: await bot.send_message(...): the messages line 171 sends
CodesBatch(new) == <<CodesMsg(new)>>

\* f"Order status: {status}"
StatusMsg(st) == [kind |-> "status", status |-> st]

StatusChangedAlways(st, last) == TRUE

\* if status != last_status
StatusChanged(st, last) == st # last

\* delay = backoff[0] if backoff else 30
DelayOf(b) == IF b # <<>> THEN Head(b) ELSE ExhaustedDelay

NextBackoffRotates(b) == IF Len(b) > 1 THEN Tail(b) \o <<Head(b)>> ELSE b

\* if len(backoff) > 1: backoff.pop(0)
NextBackoff(b) == IF Len(b) > 1 THEN Tail(b) ELSE b

(***************************************************************************)
(* The scenario of the spec's testable properties, as a sequence of polls. *)
(***************************************************************************)
Scenario ==
    << [status |-> "PENDING", sms |-> <<>>],
       [status |-> "RECEIVED", sms |-> <<Sms1>>],
       [status |-> "RECEIVED", sms |-> <<Sms1, Sms2>>],
       [status |-> "FINISHED", sms |-> <<Sms1, Sms2>>] >>

\* an entry without id listed by three polls, beside entries of id 3
ScenarioNoId ==
    << [status |-> "PENDING", sms |-> <<SmsNoId>>],
       [status |-> "RECEIVED", sms |-> <<SmsNoId, Sms3SameText>>],
       [status |-> "RECEIVED", sms |-> <<SmsNoId, Sms3Changed>>],
       [status |-> "FINISHED", sms |-> <<Sms3SameText, SmsNoId>>] >>

\* entry 1 listed without a code, with an empty code, then with its code
ScenarioNoCode ==
    << [status |-> "PENDING", sms |-> <<Sms1NoCode>>],
       [status |-> "RECEIVED", sms |-> <<Sms1EmptyCode>>],
       [status |-> "RECEIVED", sms |-> <<Sms1>>],
       [status |-> "FINISHED", sms |-> <<Sms1, Sms1>>] >>

Script ==
    IF pool = PoolNoId THEN ScenarioNoId
    ELSE IF pool = PoolNoCode THEN ScenarioNoCode
    ELSE Scenario

ScenNext(k, raw, sms_list) ==
    IF k >= 0 /\ k < Len(Script)
         /\ raw = Script[k + 1].status /\ sms_list = Script[k + 1].sms
      THEN k + 1
      ELSE 0 - 1

RecoveryDelayFromSchedule == DelayOf(backoff)

\* await asyncio.sleep(5)
RecoveryDelay == 5

(***************************************************************************)
(* A watcher fed the successful polls only, as a fold over their data.     *)
(***************************************************************************)
RefInit == [seen |-> {}, last |-> None, sent |-> <<>>]

\* the places of sms_list that hold the first entry of a key not in seen
\* and carry a code, in list order
NewEntries(sms_list, seen) ==
    LET First(i) == /\ SmsKey(sms_list[i]) \notin seen
                    /\ \A j \in 1..(i - 1) : SmsKey(sms_list[j]) # SmsKey(sms_list[i])
                    /\ sms_list[i].code \notin {None, ""}
    IN  SelectSeq([i \in 1..Len(sms_list) |-> i], First)

RefCodes(sms_list, seen) ==
    LET at == NewEntries(sms_list, seen)
    IN  IF at = <<>> THEN <<>>
        ELSE << [kind |-> "codes",
                 codes |-> [k \in 1..Len(at) |-> sms_list[at[k]].code],
                 sids |-> [k \in 1..Len(at) |-> SmsKey(sms_list[at[k]])]] >>

RefStatus(raw, last) ==
    IF Str(raw) # last THEN << [kind |-> "status", status |-> Str(raw)] >> ELSE <<>>

RefStep(r, raw, sms_list) ==
    [seen |-> r.seen \cup {SmsKey(sms_list[i]) : i \in 1..Len(sms_list)},
     last |-> Str(raw),
     sent |-> r.sent \o RefCodes(sms_list, r.seen) \o RefStatus(raw, r.last)]

CaughtBaseException(e) == TRUE

CaughtOnlyFiveSimError(e) == e.type = "FiveSimError"

\* except Exception: FiveSimError, httpx.HTTPError and AssertionError are Exceptions
Caught(e) == e.type \in {"FiveSimError", "HTTPError", "AssertionError"}

WatcherInit ==
    /\ pc = "poll"
    /\ backoff = BackoffSchedule
    /\ seen_sms_ids = {}
    /\ last_status = None
    /\ status = None
    /\ sent = <<>>
    /\ delays = <<>>
    /\ npolls = 0
    /\ observed = None
    /\ runs = 0
    /\ scen = 0
    /\ wait = 0
    /\ ref = RefInit
    /\ base = 0

\* The order_check of a watcher is answered by a status and, below 400, by a
\* body that decodes to the order's mapping.
WatcherResponses == {r \in Responses : r.kind = "http" => r.json}

\* data = await _get_fs_client().order_check(order_id=order_id): the call starts
CallOrderCheck ==
    /\ pc = "poll"
    /\ req_pc = "idle"
    /\ npolls < MaxPolls
    /\ Len(sent) < MaxSent
    /\ StartRequest
    /\ pc' = "await_check"
    /\ UNCHANGED <<confvars, botvars, buyvars, cachevars, backoff, seen_sms_ids, last_status, status, sent, delays,
                   npolls, observed, runs, scen, wait, ref, base>>

WatcherAttempt == pc = "await_check" /\ Attempt(WatcherResponses)

\* except Exception: logger.warning(...); await asyncio.sleep(5)
\* An exception the handler does not catch ends the task.
PollFailed ==
    /\ pc = "await_check"
    /\ req_pc = "raised"
    /\ pc' = IF Caught(result) THEN "recover"
             ELSE IF result = CancelledError THEN "cancelled"
             ELSE "crashed"
    /\ wait' = IF Caught(result) THEN RecoveryDelay ELSE 0
    /\ ReqReset
    /\ UNCHANGED <<confvars, botvars, buyvars, cachevars, backoff, seen_sms_ids, last_status, status, sent, delays,
                   npolls, observed, runs, scen, ref, base>>

RecoveredForgets ==
    /\ pc = "recover"
    /\ pc' = "poll"
    /\ wait' = 0
    /\ seen_sms_ids' = {}
    /\ last_status' = None
    /\ UNCHANGED <<confvars, botvars, buyvars, cachevars, reqvars, backoff, status, sent, delays, npolls, observed,
                   runs, scen, ref, base>>

\* asyncio.sleep(5) returns; continue
Recovered ==
    /\ pc = "recover"
    /\ pc' = "poll"
    /\ wait' = 0
    /\ UNCHANGED <<confvars, botvars, buyvars, cachevars, reqvars, backoff, seen_sms_ids, last_status, status, sent,
                   delays, npolls, observed, runs, scen, ref, base>>

\* lines 177-182: break, or delay = ...; await asyncio.sleep(delay)
TerminalStep(st) ==
    IF IsTerminal(st)
      THEN pc' = "done" /\ delays' = delays /\ wait' = 0
      ELSE /\ pc' = "sleep"
           /\ delays' = Append(delays, DelayOf(backoff))
           /\ wait' = DelayOf(backoff)

StatusStepUnsent(st, snt) ==
    /\ last_status' = st
    /\ sent' = snt
    /\ TerminalStep(st)

\* lines 173-175, then on to line 177 unless a message is being sent
StatusStep(st, snt) ==
    IF StatusChanged(st, last_status)
      THEN /\ last_status' = st
           /\ sent' = Append(snt, StatusMsg(st))
           /\ pc' = "send_status"
           /\ delays' = delays
           /\ wait' = wait
      ELSE /\ last_status' = last_status
           /\ sent' = snt
           /\ TerminalStep(st)

PollOkStatusFirst ==
    /\ pc = "await_check"
    /\ req_pc = "returned"
    /\ result.body = "json"
    /\ \E raw \in RawStatuses, sms_list \in SmsLists :
         LET scan == ScanSms(sms_list, seen_sms_ids, <<>>)
         IN  /\ status' = Str(raw)
             /\ seen_sms_ids' = scan.seen
             /\ IF scan.new # <<>>
                  THEN /\ sent' = (IF StatusChanged(Str(raw), last_status)
                                     THEN Append(sent, StatusMsg(Str(raw)))
                                     ELSE sent) \o CodesBatch(scan.new)
                       /\ last_status' = Str(raw)
                       /\ pc' = "send_codes"
                       /\ UNCHANGED <<delays, wait>>
                  ELSE StatusStep(Str(raw), sent)
             /\ npolls' = npolls + 1
             /\ runs' = IF npolls = 0 \/ raw # observed THEN runs + 1 ELSE runs
             /\ observed' = raw
             /\ scen' = ScenNext(scen, raw, sms_list)
             /\ ref' = RefStep(ref, raw, sms_list)
    /\ base' = Len(sent)
    /\ ReqReset
    /\ UNCHANGED <<confvars, botvars, buyvars, cachevars, backoff>>

\* order_check returned: lines 155-171, then on unless a message is being sent
PollOk ==
    /\ pc = "await_check"
    /\ req_pc = "returned"
    /\ result.body = "json"
    /\ \E raw \in RawStatuses, sms_list \in SmsLists :
         LET scan == ScanSms(sms_list, seen_sms_ids, <<>>)
         IN  /\ status' = Str(raw)
             /\ seen_sms_ids' = scan.seen
             /\ IF scan.new # <<>>
                  THEN /\ sent' = sent \o CodesBatch(scan.new)
                       /\ pc' = "send_codes"
                       /\ UNCHANGED <<last_status, delays, wait>>
                  ELSE StatusStep(Str(raw), sent)
             /\ npolls' = npolls + 1
             /\ runs' = IF npolls = 0 \/ raw # observed THEN runs + 1 ELSE runs
             /\ observed' = raw
             /\ scen' = ScenNext(scen, raw, sms_list)
             /\ ref' = RefStep(ref, raw, sms_list)
    /\ base' = Len(sent)
    /\ ReqReset
    /\ UNCHANGED <<confvars, botvars, buyvars, cachevars, backoff>>

\* bot.send_message of the codes returned
CodesSent ==
    /\ pc = "send_codes"
    /\ StatusStep(status, sent)
    /\ base' = IF pc' = "send_status" THEN base ELSE Len(sent')
    /\ UNCHANGED <<confvars, botvars, buyvars, cachevars, reqvars, backoff, seen_sms_ids, status, npolls, observed,
                   runs, scen, ref>>

\* bot.send_message of the status returned
StatusSent ==
    /\ pc = "send_status"
    /\ TerminalStep(status)
    /\ base' = Len(sent)
    /\ UNCHANGED <<confvars, botvars, buyvars, cachevars, reqvars, backoff, seen_sms_ids, last_status, status, sent,
                   npolls, observed, runs, scen, ref>>

\* asyncio.sleep(delay) returned: lines 183-184, and the loop goes round
Slept ==
    /\ pc = "sleep"
    /\ backoff' = NextBackoff(backoff)
    /\ pc' = "poll"
    /\ wait' = 0
    /\ UNCHANGED <<confvars, botvars, buyvars, cachevars, reqvars, seen_sms_ids, last_status, status, sent, delays,
                   npolls, observed, runs, scen, ref, base>>

(***************************************************************************)
(* SpecFaulty: the provider may answer below 400 with a body that is not   *)
(* JSON, and bot.send_message may raise.                                   *)
(***************************************************************************)
FaultyAttempt == pc = "await_check" /\ Attempt(Responses)

\* order_check returned resp.text: data.get("status") on line 155 raises
\* AttributeError outside the try of lines 148-153, and the task ends
PollText ==
    /\ pc = "await_check"
    /\ req_pc = "returned"
    /\ result.body = "text"
    /\ pc' = "crashed"
    /\ ReqReset
    /\ UNCHANGED <<confvars, botvars, buyvars, cachevars, backoff, seen_sms_ids, last_status, status, sent, delays,
                   npolls, observed, runs, scen, wait, ref, base>>

\* bot.send_message on line 171 or 175 raises: nothing catches it, and the
\* task ends
SendFailed ==
    /\ pc \in {"send_codes", "send_status"}
    /\ pc' = "crashed"
    /\ UNCHANGED <<confvars, botvars, buyvars, cachevars, reqvars, backoff, seen_sms_ids, last_status, status, sent,
                   delays, npolls, observed, runs, scen, wait, ref, base>>

(***************************************************************************)
(* SpecCancel: the task of the watcher is cancelled while it is suspended. *)
(***************************************************************************)
\* cancelled in order_check: the await of the request (line 112) or of the
\* retry sleep (line 145) raises CancelledError, which no except clause of
\* _request names
CancelRequest ==
    /\ pc = "await_check"
    /\ req_pc \in {"attempt", "backoff"}
    /\ Leave("raised", CancelledError)
    /\ UNCHANGED <<confvars, botvars, buyvars, cachevars, resp, tries, sleeps, auth, wvars>>

\* cancelled in asyncio.sleep(delay) or asyncio.sleep(5): the await raises
\* CancelledError outside any try
CancelSleep ==
    /\ pc \in {"sleep", "recover"}
    /\ pc' = "cancelled"
    /\ UNCHANGED <<confvars, botvars, buyvars, cachevars, reqvars, backoff, seen_sms_ids,
                   last_status, status, sent, delays, npolls, observed, runs, scen,
                   wait, ref, base>>

(***************************************************************************)
(* buy_activation and the handler buy_maxprice that calls it.              *)
(* A Python value is a record: absent (None), an int, a float, a str.      *)
(***************************************************************************)
Absent == [t |-> "none"]
IntV(n) == [t |-> "int", v |-> n]
FloatV(n) == [t |-> "float", v |-> n]
StrV(x) == [t |-> "str", v |-> x]

\* str(x) of an argument
PyStr(x) ==
    CASE x.t = "str" -> x.v
      [] x = IntV(0) -> "0"
      [] x = IntV(1) -> "1"
      [] x = IntV(5) -> "5"
      [] x = FloatV(5) -> "5.0"
      [] OTHER -> "?"

Operators == {"any", "beeline"}

OptArgs == {"forwarding", "number", "reuse", "voice", "ref", "max_price"}

\* the values a caller gives to an optional argument
ArgValues(k) ==
    CASE k = "forwarding" -> {Absent, IntV(0), IntV(1)}
      [] k = "number" -> {Absent, StrV("79001234567")}
      [] k = "reuse" -> {Absent, IntV(1)}
      [] k = "voice" -> {Absent, IntV(1)}
      [] k = "ref" -> {Absent, StrV("r")}
      [] k = "max_price" -> {Absent, IntV(5)}

BuyArgs == {a \in [OptArgs -> UNION {ArgValues(k) : k \in OptArgs}] :
               \A k \in OptArgs : a[k] \in ArgValues(k)}

NoArgs == [k \in OptArgs |-> Absent]

ParamName(k) == IF k = "max_price" THEN "maxPrice" ELSE k

ArgOf(p) == IF p = "maxPrice" THEN "max_price" ELSE p

\* if <argument> is not None, for each optional argument of buy_activation
Given(a, k) == a[k] # Absent

\* params of buy_activation: one entry per optional argument given
Params(a) ==
    [p \in {ParamName(k) : k \in {k \in OptArgs : Given(a, k)}}
        |-> IF ArgOf(p) \in {"number", "ref"} THEN a[ArgOf(p)].v ELSE PyStr(a[ArgOf(p)])]

NoCall == [via |-> "none"]

NoParams == [p \in {} |-> ""]

BuyInit ==
    /\ buy_pc = "idle"
    /\ buy_call = NoCall
    /\ buy_params = NoParams
    /\ buy_reply = "none"
    /\ order_id = None

\* buy_activation(...): params is built and _request is called
CallBuyActivation(via, operator, a) ==
    /\ buy_call' = [via |-> via, operator |-> operator, args |-> a]
    /\ buy_params' = Params(a)
    /\ StartRequest
    /\ buy_pc' = "await_buy"
    /\ buy_reply' = "none"
    /\ order_id' = None

\* message.text of the max-price step
MessageTexts == {"", "Skip", "none", " 5 ", "abc"}

\* (message.text or "").strip().lower()
Normalize(text) ==
    CASE text = "Skip" -> "skip"
      [] text = " 5 " -> "5"
      [] OTHER -> text

\* float(txt); Absent where float raises
ParseFloat(txt) == IF txt = "5" THEN FloatV(5) ELSE Absent

\* max_price=max_price if operator == "any" else None
HandlerMaxPrice(operator, max_price) == IF operator = "any" THEN max_price ELSE Absent

\* buy_maxprice, to the await of buy_activation or to the return on a text
\* that is no number
BuyMaxprice ==
    /\ buy_pc = "idle"
    /\ req_pc = "idle"
    /\ \E text \in MessageTexts, operator \in Operators :
         LET txt == Normalize(text)
             skip == txt \in {"", "skip", "none"}
             max_price == IF skip THEN Absent ELSE ParseFloat(txt)
         IN  IF ~skip /\ max_price = Absent
               THEN /\ buy_reply' = "invalid number"
                    /\ buy_call' = NoCall
                    /\ buy_params' = NoParams
                    /\ UNCHANGED <<buy_pc, order_id, reqvars>>
               ELSE CallBuyActivation("buy_maxprice", operator,
                        [NoArgs EXCEPT !["max_price"] = HandlerMaxPrice(operator, max_price)])
    /\ norders < MaxOrders
    /\ UNCHANGED <<confvars, botvars, wvars, cachevars>>

\* buy_activation called as the scenario of the specification calls it
BuyActivation ==
    /\ buy_pc = "idle"
    /\ req_pc = "idle"
    /\ \E operator \in Operators, a \in BuyArgs : CallBuyActivation("direct", operator, a)
    /\ UNCHANGED <<confvars, botvars, wvars, cachevars>>

BuyAttempt == buy_pc = "await_buy" /\ Attempt(Responses)

\* buy_activation returned or raised: lines 429-443 of main.py
\* the ids the provider gives its orders: order.get("id")
OrderIds == {100 + n : n \in 1..MaxOrders}

\* str(order.get("id"))
OrderId(id) ==
    CASE id = 101 -> "101"
      [] id = 102 -> "102"
      [] id = 103 -> "103"
      [] OTHER -> "?"

\* message.from_user.id
UserId == "user"

\* ORDERS = {} and USER_LAST_ORDER = {}; no task created
NoEntries == [k \in {} |-> None]

\* d[key] = value of a dict
Assign(d, key, value) == [k \in DOMAIN d \cup {key} |-> IF k = key THEN value ELSE d[k]]

\* ORDERS[order_id] = {"data": ..., "seen_sms_ids": set(), "chat_id": ..., "user_id": ...}
OrderEntry(id) ==
    [data |-> id, seen_sms_ids |-> {}, chat_id |-> "chat", user_id |-> UserId]

\* the locals of _poll_order_updates before its loop
WatcherLocals ==
    [pc |-> "poll", backoff |-> BackoffSchedule, seen_sms_ids |-> {}, last_status |-> None,
     status |-> None, sent |-> <<>>, npolls |-> 0]

\* no order button handled yet
NoAction == [order_id |-> None, action |-> None]

BotInit ==
    /\ ORDERS = NoEntries
    /\ USER_LAST_ORDER = NoEntries
    /\ ws = NoEntries
    /\ refs = NoEntries
    /\ norders = 0
    /\ last_action = NoAction

\* "Purchase failed. Try different options or later."
PurchaseFailedText == "Purchase failed. Try different options or later."

\* "Purchase failed due to network error. Please try again."
NetworkErrorText == "Purchase failed due to network error. Please try again."

\* the message of the except clause that catches e
FailureText(e) == IF e.type = "FiveSimError" THEN PurchaseFailedText ELSE NetworkErrorText

\* lines 444-450
RegisterOrder(oid, id) ==
    /\ ORDERS' = Assign(ORDERS, oid, OrderEntry(id))
    /\ USER_LAST_ORDER' = Assign(USER_LAST_ORDER, UserId, oid)

StartsWatcherAlways(reply) == TRUE

\* whether the handler goes on to line 467 after the message.answer of reply:
\* the except clauses return after theirs
StartsWatcher(reply) == reply \notin {PurchaseFailedText, NetworkErrorText}

\* asyncio.create_task(_poll_order_updates(bot, order_id, message.chat.id))
CreateTask(id) ==
    /\ ws' = Assign(ws, id, WatcherLocals)
    /\ refs' = Assign(refs, id, RefInit)

\* lines 438-463 for the order buy_activation returned, to the await of
\* message.answer; the provider numbers its orders, each with an id of its own
OrderReturned ==
    \E id \in OrderIds \ {ORDERS[k].data : k \in DOMAIN ORDERS} :
      /\ order_id' = OrderId(id)
      /\ RegisterOrder(OrderId(id), id)
      /\ norders' = norders + 1
      /\ buy_reply' = "Order created"
      /\ buy_pc' = "answer"
      /\ UNCHANGED <<ws, refs, last_action>>

\* buy_activation returned or raised in buy_maxprice: lines 429-463, to the
\* await of message.answer; order.get raises on a body that is no mapping.
\* A direct call only delivers its result.
BuyReturned ==
    /\ buy_pc = "await_buy"
    /\ req_pc \in {"returned", "raised"}
    /\ IF buy_call.via = "direct"
         THEN /\ buy_reply' = IF req_pc = "returned" THEN "returned" ELSE "raised"
              /\ buy_pc' = "idle"
              /\ UNCHANGED <<botvars, order_id>>
         ELSE IF req_pc = "raised"
           THEN /\ buy_reply' = FailureText(result)
                /\ buy_pc' = "answer"
                /\ UNCHANGED <<botvars, order_id>>
         ELSE IF result.body # "json"
           THEN /\ buy_reply' = "AttributeError"
                /\ buy_pc' = "idle"
                /\ UNCHANGED <<botvars, order_id>>
         ELSE OrderReturned
    /\ ReqReset
    /\ UNCHANGED <<confvars, wvars, cachevars, buy_call, buy_params>>

\* message.answer returned: the handler returns, or line 467 starts the
\* watcher of the order
BuyAnswered ==
    /\ buy_pc = "answer"
    /\ IF StartsWatcher(buy_reply)
         THEN CreateTask(order_id)
         ELSE UNCHANGED <<ws, refs>>
    /\ buy_pc' = "idle"
    /\ UNCHANGED <<confvars, reqvars, wvars, cachevars, buy_call, buy_params, buy_reply,
                   order_id, ORDERS, USER_LAST_ORDER, norders, last_action>>

(***************************************************************************)
(* The bot with several orders: the watcher tasks created by purchases run *)
(* side by side with one another and with the handlers of the front end.   *)
(* Each order_check of a watcher is taken by its outcome.                  *)
(***************************************************************************)
\* the statuses the provider reports to the watchers of SpecBot
BotStatuses == {"PENDING", "FINISHED"}

\* the entries the provider lists to the watchers of SpecBot
PoolBot == {Sms1, Sms2}

SeenOfAnyWatcher(w, o) == UNION {w[x].seen_sms_ids : x \in DOMAIN w}

\* the seen_sms_ids the task of order o reads: its own local
SeenOf(w, o) == w[o].seen_sms_ids

\* lines 177-182 of a task with locals w
AfterTerminal(w) ==
    IF IsTerminal(w.status) THEN [w EXCEPT !.pc = "done"] ELSE [w EXCEPT !.pc = "sleep"]

\* lines 173-175 of a task with locals w, then on
AfterStatus(w) ==
    IF StatusChanged(w.status, w.last_status)
      THEN [w EXCEPT !.last_status = w.status,
                     !.sent = Append(@, StatusMsg(w.status)),
                     !.pc = "send_status"]
      ELSE AfterTerminal(w)

\* lines 155-171 of a task with locals w whose order_check returned raw and
\* sms_list, then on
AfterPoll(w, seen, raw, sms_list) ==
    LET scan == ScanSms(sms_list, seen, <<>>)
        w1 == [w EXCEPT !.status = Str(raw), !.seen_sms_ids = scan.seen, !.npolls = @ + 1]
    IN  IF scan.new # <<>>
          THEN [w1 EXCEPT !.sent = @ \o CodesBatch(scan.new), !.pc = "send_codes"]
          ELSE AfterStatus(w1)

\* the task of order o calls order_check
TaskCall(o) ==
    /\ ws[o].pc = "poll"
    /\ ws[o].npolls < MaxChecks
    /\ ws' = [ws EXCEPT ![o].pc = "await_check"]
    /\ UNCHANGED refs

\* its order_check raised
TaskPollFailed(o) ==
    /\ ws[o].pc = "await_check"
    /\ ws' = [ws EXCEPT ![o].pc = "recover"]
    /\ UNCHANGED refs

\* asyncio.sleep(5) returned
TaskRecovered(o) ==
    /\ ws[o].pc = "recover"
    /\ ws' = [ws EXCEPT ![o].pc = "poll"]
    /\ UNCHANGED refs

\* its order_check returned
TaskPollOk(o) ==
    /\ ws[o].pc = "await_check"
    /\ \E raw \in BotStatuses, sms_list \in SmsLists :
         /\ ws' = [ws EXCEPT ![o] = AfterPoll(ws[o], SeenOf(ws, o), raw, sms_list)]
         /\ refs' = [refs EXCEPT ![o] = RefStep(refs[o], raw, sms_list)]

\* bot.send_message of its codes returned
TaskCodesSent(o) ==
    /\ ws[o].pc = "send_codes"
    /\ ws' = [ws EXCEPT ![o] = AfterStatus(ws[o])]
    /\ UNCHANGED refs

\* bot.send_message of its status returned
TaskStatusSent(o) ==
    /\ ws[o].pc = "send_status"
    /\ ws' = [ws EXCEPT ![o] = AfterTerminal(ws[o])]
    /\ UNCHANGED refs

\* asyncio.sleep(delay) returned
TaskSlept(o) ==
    /\ ws[o].pc = "sleep"
    /\ ws' = [ws EXCEPT ![o].backoff = NextBackoff(@), ![o].pc = "poll"]
    /\ UNCHANGED refs

\* what every step of a task leaves alone
TaskFrame ==
    UNCHANGED <<confvars, reqvars, wvars, buyvars, cachevars, ORDERS, USER_LAST_ORDER,
                norders, last_action>>

TasksCall == (\E o \in DOMAIN ws : TaskCall(o)) /\ TaskFrame
TasksPollFailed == (\E o \in DOMAIN ws : TaskPollFailed(o)) /\ TaskFrame
TasksRecovered == (\E o \in DOMAIN ws : TaskRecovered(o)) /\ TaskFrame
TasksPollOk == (\E o \in DOMAIN ws : TaskPollOk(o)) /\ TaskFrame
TasksCodesSent == (\E o \in DOMAIN ws : TaskCodesSent(o)) /\ TaskFrame
TasksStatusSent == (\E o \in DOMAIN ws : TaskStatusSent(o)) /\ TaskFrame
TasksSlept == (\E o \in DOMAIN ws : TaskSlept(o)) /\ TaskFrame

\* the order buttons
OrderActions == {"check", "finish", "cancel", "ban"}

\* on_order_action: the call of the provider for the order of the button and
\* the answer, whatever the call came to
OnOrderAction ==
    /\ \E o \in {OrderId(id) : id \in OrderIds}, action \in OrderActions :
         last_action' = [order_id |-> o, action |-> action]
    /\ UNCHANGED <<confvars, reqvars, wvars, buyvars, cachevars, ORDERS, USER_LAST_ORDER,
                   ws, refs, norders>>

\* buy_maxprice of a purchase that buy_activation answers with an order
BuyOrdered ==
    /\ buy_pc = "idle"
    /\ norders < MaxOrders
    /\ OrderReturned
    /\ UNCHANGED <<confvars, reqvars, wvars, cachevars, buy_call, buy_params>>

(***************************************************************************)
(* TTLCache and the price lookup on_prices.                                *)
(* Time is counted in ticks of half the default PRICES_TTL.                *)
(***************************************************************************)
PRICES_TTL == 2

COUNTRIES_TTL == 10

ExpiredAtDeadline(exp, t) == exp <= t

\* if exp < now
Expired(exp, t) == exp < t

\* self._store.pop(key, None)
Pop(st, key) == [k \in DOMAIN st \ {key} |-> st[k]]

\* self._store[key] = e
Put(st, key, e) == [k \in DOMAIN st \cup {key} |-> IF k = key THEN e ELSE st[k]]

\* TTLCache.get at time t: the value returned and the store left
CacheGet(st, key, t) ==
    IF key \notin DOMAIN st THEN [value |-> None, store |-> st]
    ELSE IF Expired(st[key].exp, t) THEN [value |-> None, store |-> Pop(st, key)]
    ELSE [value |-> st[key].value, store |-> st]

\* TTLCache.set at time t
CacheSet(st, key, value, ttl, t) == Put(st, key, [exp |-> t + ttl, value |-> value])

\* the text after /prices
ProductTexts == {"telegram", "Telegram ", "whatsapp"}

\* parts[1].strip().lower()
Product(text) == IF text = "Telegram " THEN "telegram" ELSE text

\* f"prices:product:{product}"
CacheKey(product) ==
    CASE product = "telegram" -> "prices:product:telegram"
      [] product = "whatsapp" -> "prices:product:whatsapp"

\* cache_key = "countries:list"
CountriesKey == "countries:list"

Keys == {CacheKey(Product(text)) : text \in ProductTexts} \cup {CountriesKey}

\* the ttl on_prices and on_countries give to cache.set
TtlOf(key) == IF key = CountriesKey THEN COUNTRIES_TTL ELSE PRICES_TTL

\* what get_guest_prices returns: decoded prices as the provider has them
\* at the time of the call
DataValues == {"prices-a", "prices-b"}

IsMissAlways(cached) == TRUE

\* if cached is None
IsMiss(cached) == cached = None

\* self._store: Dict[str, Tuple[float, Any]] = {}
EmptyStore == [k \in {} |-> [exp |-> 0, value |-> None]]

Slots == {1, 2}

Idle == [pc |-> "idle", key |-> None, data |-> None, src |-> None]

NoSet == [at |-> 0 - 1, value |-> None, ttl |-> 0]

CacheInit ==
    /\ now = 0
    /\ store = EmptyStore
    /\ lk = [h \in Slots |-> Idle]
    /\ last_set = [k \in Keys |-> NoSet]
    /\ nlook = 0
    /\ ncalls = 0
    /\ nset = 0

\* on_prices of handler h, from its start to the await of get_guest_prices,
\* or to the answer when the cache holds the prices
OnPrices(h) ==
    /\ lk[h].pc = "idle"
    /\ nlook < MaxLookups
    /\ \E text \in ProductTexts :
         LET cache_key == CacheKey(Product(text))
             got == CacheGet(store, cache_key, now)
         IN  /\ store' = got.store
             /\ IF IsMiss(got.value)
                  THEN /\ lk' = [lk EXCEPT ![h] = [pc |-> "fetch", key |-> cache_key,
                                                    data |-> None, src |-> None]]
                       /\ ncalls' = ncalls + 1
                  ELSE /\ lk' = [lk EXCEPT ![h] = [pc |-> "answer", key |-> cache_key,
                                                    data |-> got.value, src |-> "cache"]]
                       /\ ncalls' = ncalls
    /\ nlook' = nlook + 1
    /\ UNCHANGED <<confvars, botvars, reqvars, wvars, buyvars, now, last_set, nset>>

\* on_countries of handler h, from its start to the await of get_countries,
\* or to the answer when the cache holds the list
OnCountries(h) ==
    /\ lk[h].pc = "idle"
    /\ nlook < MaxLookups
    /\ LET got == CacheGet(store, CountriesKey, now)
       IN  /\ store' = got.store
           /\ IF IsMiss(got.value)
                THEN /\ lk' = [lk EXCEPT ![h] = [pc |-> "fetch", key |-> CountriesKey,
                                                  data |-> None, src |-> None]]
                     /\ ncalls' = ncalls + 1
                ELSE /\ lk' = [lk EXCEPT ![h] = [pc |-> "answer", key |-> CountriesKey,
                                                  data |-> got.value, src |-> "cache"]]
                     /\ ncalls' = ncalls
    /\ nlook' = nlook + 1
    /\ UNCHANGED <<confvars, botvars, reqvars, wvars, buyvars, now, last_set, nset>>

\* get_guest_prices or get_countries returned: cache.set(cache_key, data, ttl)
FetchOk(h) ==
    /\ lk[h].pc = "fetch"
    /\ \E data \in DataValues :
         /\ store' = CacheSet(store, lk[h].key, data, TtlOf(lk[h].key), now)
         /\ lk' = [lk EXCEPT ![h] = [pc |-> "answer", key |-> lk[h].key,
                                       data |-> data, src |-> "fetch"]]
         /\ last_set' = [last_set EXCEPT ![lk[h].key] =
                             [at |-> now, value |-> data, ttl |-> TtlOf(lk[h].key)]]
    /\ nset' = nset + 1
    /\ UNCHANGED <<confvars, botvars, reqvars, wvars, buyvars, now, nlook, ncalls>>

FetchFailedStores(h) ==
    /\ lk[h].pc = "fetch"
    /\ lk' = [lk EXCEPT ![h] = [pc |-> "answer", key |-> lk[h].key,
                                  data |-> None, src |-> "error"]]
    /\ store' = CacheSet(store, lk[h].key, "error", TtlOf(lk[h].key), now)
    /\ UNCHANGED <<confvars, botvars, reqvars, wvars, buyvars, now, last_set, nlook, ncalls, nset>>

\* get_guest_prices or get_countries raised: the handler answers that the
\* fetch failed
FetchFailed(h) ==
    /\ lk[h].pc = "fetch"
    /\ lk' = [lk EXCEPT ![h] = [pc |-> "answer", key |-> lk[h].key,
                                  data |-> None, src |-> "error"]]
    /\ UNCHANGED <<confvars, botvars, reqvars, wvars, buyvars, now, store, last_set, nlook,
                   ncalls, nset>>

\* message.answer returned and the handler ends
Answered(h) ==
    /\ lk[h].pc = "answer"
    /\ lk' = [lk EXCEPT ![h] = Idle]
    /\ UNCHANGED <<confvars, botvars, reqvars, wvars, buyvars, now, store, last_set, nlook,
                   ncalls, nset>>

\* time passes
Tick ==
    /\ now < MaxTime
    /\ now' = now + 1
    /\ UNCHANGED <<confvars, botvars, reqvars, wvars, buyvars, store, lk, last_set, nlook,
                   ncalls, nset>>

\* lookups handled one after another: one handler at a time
PricesLookup == OnPrices(1)
PricesFetched == FetchOk(1)
PricesFetchFailed == FetchFailed(1)
PricesAnswered == Answered(1)

\* price and country lookups handled one after another
CountriesLookup == OnCountries(1)
Fetched == FetchOk(1)
FetchRaised == FetchFailed(1)
LookupAnswered == Answered(1)

\* price lookups handled concurrently
ConcLookup == \E h \in Slots : OnPrices(h)
ConcFetched == \E h \in Slots : FetchOk(h)
ConcFetchFailed == \E h \in Slots : FetchFailed(h)
ConcAnswered == \E h \in Slots : Answered(h)

(***************************************************************************)
(* Specifications                                                          *)
(***************************************************************************)
\* main.py builds its client with the default retries
Init ==
    /\ retries = ClampRetries(DefaultRetries)
    /\ token_arg = EnvToken(" abc ")
    /\ token = InitToken(token_arg)
    /\ pool = SmsPool
    /\ ReqInit
    /\ WatcherInit
    /\ BuyInit
    /\ CacheInit
    /\ BotInit

Next ==
    \/ CallOrderCheck
    \/ WatcherAttempt
    \/ Backoff
    \/ PollFailed
    \/ Recovered
    \/ PollOk
    \/ CodesSent
    \/ StatusSent
    \/ Slept

Spec == Init /\ [][Next]_vars

InitClient ==
    /\ \E r \in RetriesArgs : retries = ClampRetries(r)
    /\ \E e \in EnvValues : token_arg = EnvToken(e)
    /\ token = InitToken(token_arg)
    /\ pool = SmsPool
    /\ ReqInit
    /\ WatcherInit
    /\ BuyInit
    /\ CacheInit
    /\ BotInit

NextClient ==
    \/ Call
    \/ ClientAttempt
    \/ Backoff
    \/ Complete

SpecClient == InitClient /\ [][NextClient]_vars

NextFaulty ==
    \/ CallOrderCheck
    \/ FaultyAttempt
    \/ Backoff
    \/ PollFailed
    \/ Recovered
    \/ PollOk
    \/ PollText
    \/ CodesSent
    \/ StatusSent
    \/ SendFailed
    \/ Slept

SpecFaulty == Init /\ [][NextFaulty]_vars

NextCancel ==
    \/ CallOrderCheck
    \/ WatcherAttempt
    \/ Backoff
    \/ PollFailed
    \/ Recovered
    \/ PollOk
    \/ CodesSent
    \/ StatusSent
    \/ Slept
    \/ CancelRequest
    \/ CancelSleep

SpecCancel == Init /\ [][NextCancel]_vars

\* the watcher of an order whose SMS come without id, or without code
InitSms ==
    /\ retries = ClampRetries(DefaultRetries)
    /\ token_arg = EnvToken(" abc ")
    /\ token = InitToken(token_arg)
    /\ pool \in {PoolNoId, PoolNoCode}
    /\ ReqInit
    /\ WatcherInit
    /\ BuyInit
    /\ CacheInit
    /\ BotInit

SpecSms == InitSms /\ [][Next]_vars

NextBuy ==
    \/ BuyMaxprice
    \/ BuyActivation
    \/ BuyAttempt
    \/ Backoff
    \/ BuyReturned
    \/ BuyAnswered

SpecBuy == Init /\ [][NextBuy]_vars

InitBot ==
    /\ retries = ClampRetries(DefaultRetries)
    /\ token_arg = EnvToken(" abc ")
    /\ token = InitToken(token_arg)
    /\ pool = PoolBot
    /\ ReqInit
    /\ WatcherInit
    /\ BuyInit
    /\ CacheInit
    /\ BotInit

NextBot ==
    \/ BuyOrdered
    \/ BuyAnswered
    \/ OnOrderAction
    \/ TasksCall
    \/ TasksPollFailed
    \/ TasksRecovered
    \/ TasksPollOk
    \/ TasksCodesSent
    \/ TasksStatusSent
    \/ TasksSlept

SpecBot == InitBot /\ [][NextBot]_vars

NextCache ==
    \/ PricesLookup
    \/ PricesFetched
    \/ PricesFetchFailed
    \/ PricesAnswered
    \/ Tick

SpecCache == Init /\ [][NextCache]_vars

NextLookups ==
    \/ PricesLookup
    \/ CountriesLookup
    \/ Fetched
    \/ FetchRaised
    \/ LookupAnswered
    \/ Tick

SpecLookups == Init /\ [][NextLookups]_vars

NextCacheConc ==
    \/ ConcLookup
    \/ ConcFetched
    \/ ConcFetchFailed
    \/ ConcAnswered
    \/ Tick

SpecCacheConc == Init /\ [][NextCacheConc]_vars

(***************************************************************************)
(* Claims about the watcher, under Spec                                    *)
(***************************************************************************)
\* the number of times key sid stands in a "New code(s) received" message sent so far
Notified(sid) ==
    Cardinality({ij \in (1..Len(sent)) \X (1..MaxSms + 1) :
        /\ sent[ij[1]].kind = "codes"
        /\ ij[2] <= Len(sent[ij[1]].sids)
        /\ sent[ij[1]].sids[ij[2]] = sid})

\* the keys that stand in some "New code(s) received" message sent so far
NotifiedKeys ==
    UNION {{sent[i].sids[j] : j \in 1..Len(sent[i].sids)} :
              i \in {k \in 1..Len(sent) : sent[k].kind = "codes"}}

StatusCount == Cardinality({i \in 1..Len(sent) : sent[i].kind = "status"})

\* C1: over the life of a watcher, whatever lists its polls return, the code of each
\* distinct SMS id stands in at most one "New code(s) received" message.
C1_Dedup == \A sid \in NotifiedKeys : Notified(sid) <= 1

\* C1 witness: the third poll of the scenario returned SMS 1 again, after its code was
\* sent, together with SMS 2.
C1_Witness == scen = 3 /\ Notified(1) = 1 /\ Notified(2) = 1

\* C2: once the messages of an iteration are out, the number of "Order status"
\* messages equals the number of maximal runs of equal consecutive statuses returned
\* by the successful polls; so the first successful poll sends one and a poll
\* repeating the status sends none.
C2_StatusRuns ==
    /\ pc # "send_codes" => StatusCount = runs
    /\ pc = "send_codes" => StatusCount \in {runs - 1, runs}
    /\ npolls >= 1 /\ pc # "send_codes" => StatusCount >= 1

\* C2 witness: a watcher that ended after polls that repeated a status.
C2_Witness == pc = "done" /\ runs >= 2 /\ npolls > runs

\* C3: after a successful poll returned FINISHED, CANCELED, TIMEOUT or BANNED the
\* watcher only sends that iteration's messages and ends: it is never again polling,
\* sleeping or recovering.
C3_Terminates ==
    (npolls >= 1 /\ observed \in {"FINISHED", "CANCELED", "TIMEOUT", "BANNED"})
        => /\ pc \in {"send_codes", "send_status", "done"}
           /\ req_pc = "idle"

\* C3 witness: a watcher ended by a terminal status on a later poll.
C3_Witness == pc = "done" /\ npolls >= 2 /\ observed = "TIMEOUT"

\* C8: the delays between polls taken from the backoff schedule never decrease, never
\* exceed 30, and from the sixth on (the schedule [2, 4, 8, 15, 30] used up) equal 30.
C8_BackoffMonotone ==
    \A i \in 1..Len(delays) :
        /\ delays[i] <= 30
        /\ i > 1 => delays[i - 1] <= delays[i]
        /\ i > 5 => delays[i] = 30

\* C8 witness: a watcher that slept after the schedule was used up.
C8_Witness == Len(delays) >= 6 /\ delays[1] = 2

ScenarioClaimed ==
    << [kind |-> "status", status |-> "PENDING"],
       [kind |-> "status", status |-> "RECEIVED"],
       [kind |-> "codes", codes |-> <<"123">>, sids |-> <<1>>],
       [kind |-> "codes", codes |-> <<"456">>, sids |-> <<2>>],
       [kind |-> "status", status |-> "FINISHED"] >>

ScenarioSent ==
    << [kind |-> "status", status |-> "PENDING"],
       [kind |-> "codes", codes |-> <<"123">>, sids |-> <<1>>],
       [kind |-> "status", status |-> "RECEIVED"],
       [kind |-> "codes", codes |-> <<"456">>, sids |-> <<2>>],
       [kind |-> "status", status |-> "FINISHED"] >>

\* C9 as claimed: after the scenario's four polls the messages sent are status PENDING,
\* status RECEIVED, codes 123, codes 456, status FINISHED, in this order.
C9_Claimed == (scen = 4 /\ pc = "done") => sent = ScenarioClaimed

\* C9 as amended: after the scenario's four polls the messages sent are status PENDING,
\* codes 123, status RECEIVED, codes 456, status FINISHED, in this order, and the
\* watcher stops.
C9_Scenario ==
    scen = 4 => /\ sent = ScenarioSent
                /\ pc \in {"send_status", "done"}

\* C9 witness: the scenario was polled to its end and the watcher stopped.
C9_Witness == scen = 4 /\ pc = "done"

\* C10: an order_check that raised leaves the watcher running and sends nothing: the
\* watcher goes to its recovery sleep and from there to the next poll; a message is
\* sent only in the iteration of an order_check that returned.
C10_PollFailureRecovers ==
    [][/\ (pc = "await_check" /\ req_pc = "raised")
            => (pc' = "recover" /\ sent' = sent)
       /\ pc = "recover" => (pc' = "poll" /\ sent' = sent)
       /\ sent' # sent => ((pc = "await_check" /\ req_pc = "returned")
                               \/ pc = "send_codes")]_vars

\* C10 witness: a poll failed after earlier polls had sent messages.
C10_Witness == pc = "recover" /\ npolls >= 1 /\ sent # <<>>

(***************************************************************************)
(* Claims about FiveSimClient._request, under SpecClient                   *)
(***************************************************************************)
Finished == req_pc \in {"returned", "raised"}

\* C4: an attempt answered by a status in 400..499 other than 429 ends the call at
\* once with a FiveSimError of that status, created by that attempt, however many
\* retries remain and whatever came before.
C4_NoRetryOn4xx ==
    (resp.kind = "http" /\ resp.status_code \in 400..499 /\ resp.status_code # 429)
        => /\ req_pc = "raised"
           /\ result.type = "FiveSimError"
           /\ result.status_code = resp.status_code
           /\ result.at = tries - 1

\* C4 witness: a 404 on the second attempt, with a retry still left.
C4_Witness ==
    /\ req_pc = "raised" /\ resp.kind = "http" /\ resp.status_code = 404
    /\ tries = 2 /\ retries = 2

\* C5: no call makes more than retries + 1 attempts; a call that raises a transient
\* failure (429, 5xx, network error) has made exactly retries + 1; an attempt answered
\* below 400 ends the call; retries is never negative.
C5_AttemptBound ==
    /\ retries >= 0
    /\ tries <= retries + 1
    /\ (req_pc = "raised" /\ (result.type = "HTTPError"
            \/ (result.type = "FiveSimError"
                  /\ (result.status_code = 429 \/ result.status_code >= 500))))
          => tries = retries + 1
    /\ (resp.kind = "http" /\ resp.status_code < 400) => req_pc = "returned"

\* C5 witness: a call that used up two retries on network errors.
C5_Witness ==
    req_pc = "raised" /\ retries = 2 /\ tries = 3 /\ result.type = "HTTPError"

\* C6: a call that raises raises the error of its last attempt; a call returns a value
\* only if its last attempt was answered below 400.
C6_LastErrorRaised ==
    /\ req_pc = "raised"
          => /\ result.type \in {"FiveSimError", "HTTPError"}
             /\ result.at = tries - 1
             /\ (result.type = "HTTPError") = (resp.kind = "HTTPError")
             /\ result.type = "FiveSimError" => result.status_code = resp.status_code
    /\ req_pc = "returned"
          => /\ resp.kind = "http" /\ resp.status_code < 400
             /\ result.kind = "value"

\* C6 witness: a call that raises the 503 of its third attempt.
C6_Witness ==
    /\ req_pc = "raised" /\ tries = 3
    /\ result.type = "FiveSimError" /\ result.status_code = 503

C11_Claimed ==
    pc \in {"done", "crashed"} => observed \in {"FINISHED", "CANCELED", "TIMEOUT", "BANNED"}

Quiet == pc \in {"poll", "await_check", "recover", "sleep", "done"}

IsPrefix(a, b) == Len(a) <= Len(b) /\ a = SubSeq(b, 1, Len(a))

\* C12: with failed polls among the successful ones, the notifications
\* emitted are those of a watcher fed the successful polls alone: the same
\* sequence once an iteration has emitted its messages, a prefix of it
\* while it is emitting them.
C12_FailuresTransparent ==
    /\ IsPrefix(sent, ref.sent)
    /\ Quiet => sent = ref.sent

C12_Witness == pc = "recover" /\ Len(sent) >= 3 /\ sent = ref.sent

IsCodes(m) == m.kind = "codes"

\* the messages of the iteration in progress
Emitted == SubSeq(sent, base + 1, Len(sent))

\* C18: an iteration emits at most one codes notification; the codes
\* notifications are, poll by poll, the one message that carries every new
\* code of the poll in the order of its SMS list, and a poll without a new
\* code has none.
C18_OneCodesMessage ==
    /\ Len(SelectSeq(Emitted, IsCodes)) <= 1
    /\ SelectSeq(sent, IsCodes) = SelectSeq(ref.sent, IsCodes)

C18_Witness ==
    /\ pc = "send_codes"
    /\ Len(Emitted) = 1
    /\ sent[Len(sent)].codes = <<"456", "123">>

\* C19: when an iteration emits both a codes notification and a status
\* notification, the codes notification comes first.
C19_CodesBeforeStatus ==
    /\ Len(Emitted) <= 2
    /\ Len(Emitted) = 2 => (Emitted[1].kind = "codes" /\ Emitted[2].kind = "status")
    /\ pc = "send_codes" => Emitted[Len(Emitted)].kind = "codes"

C19_Witness == pc = "send_status" /\ Len(Emitted) = 2 /\ npolls >= 2

\* C20: a failed poll changes neither seen_sms_ids nor last_status nor the
\* backoff schedule; the watcher then waits 5, not a delay of the schedule,
\* and after the wait it polls again.
C20_FailedPollFrame ==
    [][/\ (pc = "await_check" /\ req_pc = "raised")
            => /\ pc' = "recover"
               /\ wait' = 5
               /\ <<seen_sms_ids, last_status, backoff, delays>>'
                     = <<seen_sms_ids, last_status, backoff, delays>>
       /\ pc = "recover"
            => /\ pc' = "poll"
               /\ <<seen_sms_ids, last_status, backoff, delays>>'
                     = <<seen_sms_ids, last_status, backoff, delays>>]_vars

C20_Witness ==
    /\ pc = "recover"
    /\ wait = 5
    /\ Len(backoff) < Len(BackoffSchedule)
    /\ seen_sms_ids # {}
    /\ last_status # None

(***************************************************************************)
(* Further claims about FiveSimClient                                      *)
(***************************************************************************)
\* C13: a buy_activation call sends maxPrice only when its operator is
\* "any" and a max price was given; with operator "beeline" and max_price 5
\* the request has no maxPrice.
C13_Claimed ==
    buy_call # NoCall =>
        ("maxPrice" \in DOMAIN buy_params
            <=> (buy_call.operator = "any" /\ buy_call.args["max_price"] # Absent))

\* C16: a response below 400 whose body is not JSON ends the call: the call
\* returns the raw text, raises nothing and makes no further attempt.
C16_RawTextReturned ==
    (resp.kind = "http" /\ resp.status_code < 400 /\ ~resp.json)
        => (req_pc = "returned" /\ result = [kind |-> "value", body |-> "text"])

C16_Witness ==
    /\ req_pc = "returned"
    /\ tries = 2
    /\ resp.kind = "http" /\ resp.status_code = 200 /\ ~resp.json

\* C17: the requests of a call carry "Authorization: Bearer <token>" if and
\* only if the client was built with a non-empty token; without a token they
\* are sent without the header.
C17_AuthHeader ==
    tries >= 1 =>
        /\ auth.present <=> token_arg \notin {None, ""}
        /\ auth.present => auth.value = token_arg

C17_Witness == tries = 2 /\ auth = [present |-> TRUE, value |-> "abc"]

(***************************************************************************)
(* Claims about the cache, under SpecCache                                 *)
(***************************************************************************)
\* handler h begins a lookup in this step
Begins(h) == lk[h].pc = "idle" /\ lk'[h].pc # "idle"

\* the fetch of handler h returns in this step
Fetches(h) == lk[h].pc = "fetch" /\ lk'[h].src = "fetch"

C15_GetSetContract ==
    [][\A h \in Slots :
         /\ Begins(h) =>
               LET k == lk'[h].key
                   s == last_set[k]
               IN  IF s.at >= 0 /\ now <= s.at + s.ttl
                     THEN /\ lk'[h].pc = "answer"
                          /\ lk'[h].data = s.value
                          /\ store' = store
                     ELSE /\ lk'[h].pc = "fetch"
                          /\ DOMAIN store' = DOMAIN store \ {k}
                          /\ \A j \in DOMAIN store' : store'[j] = store[j]
         /\ Fetches(h) =>
               LET k == lk[h].key
               IN  /\ DOMAIN store' = DOMAIN store \cup {k}
                   /\ store'[k].exp = now + last_set'[k].ttl
                   /\ store'[k].value = lk'[h].data
                   /\ \A j \in DOMAIN store \ {k} : store'[j] = store[j]]_vars

C15_Witness ==
    /\ lk[1].pc = "fetch"
    /\ lk[1].key = CacheKey("telegram")
    /\ last_set[CacheKey("telegram")].at >= 0
    /\ DOMAIN store = {CacheKey("whatsapp")}

(***************************************************************************)
(* Claims about the delays of _request, under SpecClient                   *)
(***************************************************************************)
\* C23: the delay after failed attempt k is min(2.0, 0.5 * 2^k), that is 0.5,
\* 1.0, 2.0, 2.0, ... (in tenths: 5, 10, 20, 20, ...); a delay is taken only
\* between two attempts: every attempt but the first follows one, and a call
\* that has returned or raised took none after its last attempt.
C23_BackoffDelays ==
    /\ \A i \in 1..Len(sleeps) :
          sleeps[i] = (IF i = 1 THEN 5 ELSE IF i = 2 THEN 10 ELSE 20)
    /\ \A i \in 1..(Len(sleeps) - 1) : sleeps[i] <= sleeps[i + 1]
    /\ req_pc = "backoff" => Len(sleeps) = tries
    /\ req_pc = "attempt" => Len(sleeps) = tries
    /\ req_pc \in {"returned", "raised"} => Len(sleeps) = tries - 1

C23_Witness ==
    /\ req_pc = "raised"
    /\ tries = 5
    /\ sleeps = <<5, 10, 20, 20>>

(***************************************************************************)
(* Claims about the keys of SMS entries, under SpecSms                     *)
(***************************************************************************)
\* the number of times code c stands in a codes message sent so far
CodeCount(c) ==
    Cardinality({ij \in (1..Len(sent)) \X (1..MaxSms + 1) :
        /\ sent[ij[1]].kind = "codes"
        /\ ij[2] <= Len(sent[ij[1]].codes)
        /\ sent[ij[1]].codes[ij[2]] = c})

\* the keys under which code c was notified
KeysOf(c) ==
    {sent[ij[1]].sids[ij[2]] : ij \in {ij \in (1..Len(sent)) \X (1..MaxSms + 1) :
        /\ sent[ij[1]].kind = "codes"
        /\ ij[2] <= Len(sent[ij[1]].codes)
        /\ sent[ij[1]].codes[ij[2]] = c}}

\* C26: the entry without id is notified at most once however often the
\* polls list it, under the fingerprint of its text and date; the entries of
\* id 3 are notified under key 3, also the one that has the text and date of
\* the entry without id, and at most one of them is notified.
C26_KeyedByIdElseFingerprint ==
    /\ CodeCount("789") <= 1
    /\ KeysOf("789") \subseteq {7003}
    /\ KeysOf("333") \cup KeysOf("999") \subseteq {3}
    /\ CodeCount("333") + CodeCount("999") <= 1

C26_Witness ==
    /\ pool = PoolNoId
    /\ scen = 4
    /\ CodeCount("789") = 1
    /\ CodeCount("333") = 1

\* C27: once a poll has listed an id, a code of that id that has not been
\* notified is never notified: not the code of an entry first listed
\* without a code or with an empty one.
C27_SeenWithoutCode ==
    [][\A c \in {"123", "333", "999"} :
         LET id == IF c = "123" THEN 1 ELSE 3
         IN  (id \in ref.seen /\ CodeCount(c) = 0) => CodeCount(c)' = 0]_vars

C27_Witness ==
    /\ pool = PoolNoCode
    /\ scen = 4
    /\ CodeCount("123") = 0

(***************************************************************************)
(* Claims about the order of polls and notifications, under Spec           *)
(***************************************************************************)
\* an order_check call is issued in this step
IssuesPoll == req_pc = "idle" /\ req_pc' # "idle"

\* C21: a watcher has no second order_check in flight: it issues a poll only
\* from the head of its loop with no call in flight and every notification
\* of the polls before emitted, and it emits notifications with no call in
\* flight, poll by poll in the order of the polls.
C21_PollsSequential ==
    [][/\ IssuesPoll => (pc = "poll" /\ pc' = "await_check" /\ sent = ref.sent)
       /\ req_pc # "idle" => pc = "await_check"
       /\ sent' # sent => (req_pc' = "idle" /\ IsPrefix(sent, sent')
                              /\ IsPrefix(sent', ref.sent'))]_vars

C21_Witness ==
    /\ pc = "await_check" /\ req_pc = "attempt"
    /\ npolls = 3
    /\ Len(sent) = 4

(***************************************************************************)
(* Claim about cancellation, under SpecCancel                              *)
(***************************************************************************)
\* C24: a watcher cancelled while it awaits a poll, the delay between polls
\* or the recovery delay ends there: the CancelledError of a poll is not
\* taken for a failed poll, and a cancelled watcher issues no poll and emits
\* no notification.
C24_CancelStops ==
    [][/\ (pc = "await_check" /\ req_pc = "raised" /\ result = CancelledError)
            => (pc' = "cancelled" /\ sent' = sent /\ req_pc' = "idle")
       /\ pc = "cancelled"
            => (pc' = "cancelled" /\ sent' = sent /\ req_pc' = "idle" /\ tries' = tries)
       /\ pc' = "cancelled" => (req_pc' = "idle" /\ sent' = sent)]_vars

C24_Witness ==
    /\ pc = "cancelled"
    /\ wait = 0
    /\ npolls >= 2
    /\ Len(sent) >= 2

(***************************************************************************)
(* Further claims about the cache                                          *)
(***************************************************************************)
\* C25: of the price lookups of one product handled at the same time, at
\* most one has a network call under way.
C25_Claimed ==
    \A g, h \in Slots :
        (g # h /\ lk[g].pc = "fetch" /\ lk[h].pc = "fetch") => lk[g].key # lk[h].key

\* C28: a lookup whose fetch fails leaves the store as it is, with no entry
\* for its key; a lookup of a key that has no entry issues a network call;
\* an entry appears or changes in the store only in the step in which the
\* fetch of a lookup of that key returns.
C28_FailedFetchNotCached ==
    [][/\ \A h \in Slots :
            /\ (lk[h].pc = "fetch" /\ lk'[h].src = "error")
                  => (store' = store /\ lk[h].key \notin DOMAIN store')
            /\ (Begins(h) /\ lk'[h].key \notin DOMAIN store)
                  => (ncalls' = ncalls + 1 /\ lk'[h].pc = "fetch")
       /\ \A k \in DOMAIN store' :
            (k \notin DOMAIN store \/ store'[k] # store[k])
                => \E h \in Slots : Fetches(h) /\ lk[h].key = k]_vars

C28_Witness ==
    /\ lk[1].pc = "answer"
    /\ lk[1].src = "error"
    /\ lk[1].key = CountriesKey
    /\ ncalls = 2
    /\ DOMAIN store = {CacheKey("telegram")}
Between == {"poll", "await_check", "recover", "sleep", "done"}

\* the schedule left after n sleeps
Dropped(n) == [i \in 1..(Len(BackoffSchedule) - n) |-> BackoffSchedule[i + n]]

\* C22: watchers of distinct orders are independent under every
\* interleaving. A step that changes the locals of one task changes those of
\* no other and is no step of the front end (ORDERS, USER_LAST_ORDER, the
\* purchase in progress and the order buttons stay as they are); a step of
\* the front end changes the locals of no task. After every step each task
\* has sent a prefix of what a watcher fed that order's successful polls
\* alone sends, and between two polls it has sent all of it, holds that
\* watcher's seen ids and last status, has stopped exactly when that order's
\* latest status is terminal, and has a schedule that lacks one delay per
\* sleep of its own.
C22_WatchersIndependent ==
    [][ /\ \A o \in DOMAIN ws :
             ws'[o] # ws[o]
             => /\ \A x \in DOMAIN ws \ {o} : ws'[x] = ws[x]
                /\ DOMAIN ws' = DOMAIN ws
                /\ UNCHANGED <<ORDERS, USER_LAST_ORDER, last_action, buyvars>>
        /\ \A o \in DOMAIN ws' :
             LET w == ws'[o]
                 r == refs'[o]
             IN  /\ IsPrefix(w.sent, r.sent)
                 /\ w.pc \in Between
                     => /\ w.sent = r.sent
                        /\ w.seen_sms_ids = r.seen
                        /\ w.last_status = r.last
                        /\ (w.pc = "done") = (r.last \in {"FINISHED", "CANCELED", "TIMEOUT", "BANNED"})
                        /\ w.backoff = Dropped(IF w.pc \in {"sleep", "done"}
                                                 THEN w.npolls - 1 ELSE w.npolls)
      ]_vars

\* two tasks side by side, each of which has reported the entry with id 1 of
\* its own order; one has stopped, the other sleeps; an order button was
\* handled meanwhile
C22_Witness ==
    /\ DOMAIN ws = {"101", "102"}
    /\ ws["101"].pc = "done"
    /\ ws["102"].pc = "sleep"
    /\ \A o \in DOMAIN ws : \E i \in 1..Len(ws[o].sent) :
           ws[o].sent[i].kind = "codes" /\ ws[o].sent[i].sids = <<1>>
    /\ ws["101"].npolls = 2
    /\ last_action = [order_id |-> "101", action |-> "finish"]

====
